---- MODULE Spec2Model ----
(***************************************************************************)
(* gatewayHandler.serveFile (core/corehttp/gateway_handler_unixfs_file.go) *)
(* as a state machine: one request, stepped statement by statement.        *)
(* The lazySeeker adapter and the ServeContent responder are package code  *)
(* that lives outside the file at hand; they are modelled from the         *)
(* design text (sections 4.1 and 4.3).                                     *)
(***************************************************************************)
EXTENDS Integers, Sequences, FiniteSets, TLC

\* ---------------------------------------------------------------- bounds
MaxLen == 4        \* longest file content, in bytes
SniffLen == 3      \* bytes the detector reads at most (the library's read limit, scaled down)
MaxOps == 4        \* adapter calls made by the adapter harness (SpecAdapter)

\* ------------------------------------------------------------- inputs
Byte == {255, 216, 60}

RECURSIVE SeqsUpTo(_)
SeqsUpTo(n) ==
    IF n = 0 THEN {<<>>}
    ELSE LET shorter == SeqsUpTo(n - 1)
         IN  shorter \cup {Append(s, b) : s \in {t \in shorter : Len(t) = n - 1}, b \in Byte}

Contents == SeqsUpTo(MaxLen)

\* contents whose bytes all differ: every offset is told apart by its byte
DistinctContents ==
    {d \in Contents : \A i, j \in 1..Len(d) : d[i] = d[j] => i = j}

\* names the content-disposition collaborator may hand back
Names == {"cat.png", "index.html", "README", "v1.2/notes"}

Min(a, b) == IF a < b THEN a ELSE b

VARIABLES
    data,        \* the bytes behind file (files.File)
    isSymlink,   \* file is a *files.Symlink
    pc,          \* position inside serveFile
    trace,       \* the calls serveFile has made, in order
    name,        \* result of addContentDispositionHeader
    size,        \* result of file.Size()
    err,         \* the error the last fallible call returned ("" for nil)
    content,     \* the lazySeeker
    ctype,       \* local variable ctype
    header,      \* the response's Content-Type header ("" while unset)
    wrapped,     \* w is the statusResponseWriter
    req,         \* the request r as ServeContent saw it
    status,      \* status code written (0: none yet)
    dataSent,    \* second result of ServeContent
    body,        \* bytes written to the response body
    metricObs,   \* observations made on unixfsFileGetMetric
    probe        \* adapter harness: the last seek and the read that followed

vars == <<data, isSymlink, pc, trace, name, size, err, content, ctype, header,
          wrapped, req, status, dataSent, body, metricObs, probe>>

\* ------------------------------------------------- strings (path, mime)
HasPrefix(s, p) == Len(s) >= Len(p) /\ SubSeq(s, 1, Len(p)) = p

RECURSIVE ExtFrom(_, _)
ExtFrom(path, i) ==
    IF i = 0 THEN ""
    ELSE IF SubSeq(path, i, i) = "/" THEN ""
    ELSE IF SubSeq(path, i, i) = "." THEN SubSeq(path, i, Len(path))
    ELSE ExtFrom(path, i - 1)

\* gopath.Ext: the suffix from the last dot of the last path element
Ext(path) == ExtFrom(path, Len(path))

\* mime.TypeByExtension: the registry, "" for an unknown extension
TypeByExtension(ext) ==
    CASE ext = ".png"  -> "image/png"
      [] ext = ".jpg"  -> "image/jpeg"
      [] ext = ".html" -> "text/html; charset=utf-8"
      [] OTHER         -> ""

\* mimetype's verdict on the bytes it read (mimeType.String()): a signature
\* match on the prefix, the root type otherwise; never empty
DetectType(prefix) ==
    IF Len(prefix) >= 3 /\ SubSeq(prefix, 1, 3) = <<255, 216, 255>> THEN "image/jpeg"
    ELSE IF Len(prefix) >= 1 /\ prefix[1] = 60 THEN "text/html; charset=utf-8"
    ELSE "application/octet-stream"

StripKeepsParams(t) == t

\* lines 74-76: drop the parameters of an HTML type
StripHTMLEncoding(t) == IF HasPrefix(t, "text/html;") THEN "text/html" ELSE t

\* ------------------------------------------------------- the lazySeeker
\* The adapter over the forward-only file: offset is its logical position,
\* srcPos the cursor of the open source handle, reads and seeks count the
\* calls made on it, opens the times the source was restarted.
NoContent ==
    [made |-> FALSE, size |-> 0, offset |-> 0, srcPos |-> 0,
     reads |-> 0, seeks |-> 0, opens |-> 0]

\* lines 40-43: &lazySeeker{size: size, reader: file}
NewLazySeeker(sz) ==
    [made |-> TRUE, size |-> sz, offset |-> 0, srcPos |-> 0,
     reads |-> 0, seeks |-> 0, opens |-> 0]

Whence == {"start", "current", "end"}

\* 4.1: origin plus known size give the absolute target
SeekTarget(s, off, whence) ==
    CASE whence = "start"   -> off
      [] whence = "current" -> s.offset + off
      [] whence = "end"     -> s.size + off

\* a backward seek that skips forward from where the handle stands
RepositionNoRestart(s, target) ==
    [s EXCEPT !.offset = target, !.srcPos = Min(s.srcPos + target, s.size)]

\* 4.1: forward targets are reached by discarding source bytes; a target
\* behind the position restarts the source and discards up to the target
Reposition(s, target) ==
    IF target >= s.offset
    THEN [s EXCEPT !.offset = target, !.srcPos = s.srcPos + (target - s.offset)]
    ELSE [s EXCEPT !.offset = target, !.srcPos = target, !.opens = s.opens + 1]

\* seek(offset, origin); ok = FALSE is the source failing to restart or skip
LazySeek(s, off, whence, ok) ==
    LET target  == SeekTarget(s, off, whence)
        counted == [s EXCEPT !.seeks = s.seeks + 1]
    IN  IF target < 0 \/ target > s.size
        THEN [s |-> counted, err |-> "InvalidOffset", pos |-> s.offset]
        ELSE IF ~ok /\ target # s.offset
        THEN [s |-> counted, err |-> "SeekError", pos |-> s.offset]
        ELSE [s |-> Reposition(counted, target), err |-> "", pos |-> target]

\* read(buffer of n bytes): the bytes come from the source handle's cursor;
\* ok = FALSE is the source read failing
LazyRead(s, d, n, ok) ==
    LET counted == [s EXCEPT !.reads = s.reads + 1]
        k       == Min(n, s.size - s.srcPos)
    IN  IF ~ok
        THEN [s |-> counted, bytes |-> <<>>, err |-> "ReadError"]
        ELSE [s |-> [counted EXCEPT !.offset = s.offset + k, !.srcPos = s.srcPos + k],
              bytes |-> SubSeq(d, s.srcPos + 1, s.srcPos + k),
              err |-> ""]

\* a full-body read: everything from the stream's position to its end
ReadAll(s, d) == LazyRead(s, d, s.size, TRUE).bytes

\* --------------------------------------------------------- ServeContent
\* The requests a client may send: method, whether its validators match
\* (If-None-Match / If-Modified-Since), and an optional single byte range.
Ranges ==
    {[kind |-> "none", start |-> 0, len |-> 0], [kind |-> "bad", start |-> 0, len |-> 0]}
    \cup {[kind |-> "bytes", start |-> a, len |-> l] : a \in 0..MaxLen, l \in 1..MaxLen}

Requests == [method : {"GET", "HEAD"}, condMatch : BOOLEAN, range : Ranges]

\* r before ServeContent has looked at it
NoRequest == [method |-> "", condMatch |-> FALSE, range |-> [kind |-> "none", start |-> 0, len |-> 0]]

Outcome(st, sent, bytes, s) == [status |-> st, dataSent |-> sent, body |-> bytes, s |-> s]

\* 4.3: 304 on a validator match, 416 on a bad or unsatisfiable range,
\* headers only for HEAD, 206 with the range's bytes (seek + bounded read),
\* 200 with the full body read off the stream as handed over; a failing
\* seek or read ends the request with 500 and nothing counted as sent
ServeContent(s, d, r, ok) ==
    IF r.condMatch THEN Outcome(304, FALSE, <<>>, s)
    ELSE IF r.range.kind = "bad" THEN Outcome(416, FALSE, <<>>, s)
    ELSE IF r.range.kind = "bytes" /\ r.range.start >= s.size
    THEN Outcome(416, FALSE, <<>>, s)
    ELSE IF r.method = "HEAD"
    THEN Outcome(IF r.range.kind = "bytes" THEN 206 ELSE 200, FALSE, <<>>, s)
    ELSE IF r.range.kind = "bytes"
    THEN LET sk == LazySeek(s, r.range.start, "start", ok)
             rd == LazyRead(sk.s, d, r.range.len, ok)
         IN  IF sk.err # "" THEN Outcome(500, FALSE, <<>>, sk.s)
             ELSE IF rd.err # "" THEN Outcome(500, FALSE, <<>>, rd.s)
             ELSE Outcome(206, Len(rd.bytes) > 0, rd.bytes, rd.s)
    ELSE LET rd == LazyRead(s, d, s.size, ok)
         IN  IF rd.err # "" THEN Outcome(500, FALSE, <<>>, rd.s)
             ELSE Outcome(200, TRUE, rd.bytes, rd.s)

\* ------------------------------------------------------------ serveFile
NoProbe == [op |-> "none", err |-> "", from |-> 0, target |-> 0, n |-> 0, bytes |-> <<>>]

Init ==
    /\ data \in Contents
    /\ isSymlink \in BOOLEAN
    /\ pc = "start"
    /\ trace = <<>>
    /\ name = ""
    /\ size = 0
    /\ err = ""
    /\ content = NoContent
    /\ ctype = ""
    /\ header = ""
    /\ wrapped = FALSE
    /\ req = NoRequest
    /\ status = 0
    /\ dataSent = FALSE
    /\ body = <<>>
    /\ metricObs = 0
    /\ probe = NoProbe

SpanLeftOpen(tr) == tr

\* line 24: defer span.End(), run on every return
Deferred(tr) == Append(tr, "span.end")

\* a return statement: the deferred call runs and the function is left
Return(tr) ==
    /\ trace' = Deferred(tr)
    /\ pc' = "done"

\* http.Error: plain-text headers and the status code
HttpError(code) ==
    /\ status' = code
    /\ header' = "text/plain; charset=utf-8"

\* line 23: tracing.Span(...)
StartSpan ==
    /\ pc = "start"
    /\ trace' = Append(trace, "span.start")
    /\ pc' = "cache"
    /\ UNCHANGED <<data, isSymlink, name, size, err, content, ctype, header, wrapped, req,
                   status, dataSent, body, metricObs, probe>>

\* line 27: addCacheControlHeaders
AddCacheControl ==
    /\ pc = "cache"
    /\ trace' = Append(trace, "cacheControl")
    /\ pc' = "disp"
    /\ UNCHANGED <<data, isSymlink, name, size, err, content, ctype, header, wrapped, req,
                   status, dataSent, body, metricObs, probe>>

\* line 30: name := addContentDispositionHeader(...)
AddContentDisposition ==
    /\ pc = "disp"
    /\ \E n \in Names : name' = n
    /\ trace' = Append(trace, "contentDisposition")
    /\ pc' = "size"
    /\ UNCHANGED <<data, isSymlink, size, err, content, ctype, header, wrapped, req,
                   status, dataSent, body, metricObs, probe>>

SizeErrorIgnored(ok) ==
    /\ size' = IF ok THEN Len(data) ELSE 0
    /\ trace' = Append(trace, "size")
    /\ pc' = "adapter"
    /\ UNCHANGED <<status, header>>

\* lines 33-37: size, err := file.Size(); 502 and return on err
SizeStep(ok) ==
    IF ok
    THEN /\ size' = Len(data)
         /\ trace' = Append(trace, "size")
         /\ pc' = "adapter"
         /\ UNCHANGED <<status, header>>
    ELSE /\ HttpError(502)
         /\ Return(Append(trace, "size"))
         /\ UNCHANGED size

FileSize ==
    /\ pc = "size"
    /\ \E ok \in BOOLEAN :
          /\ err' = IF ok THEN "" ELSE "UnknownSize"
          /\ SizeStep(ok)
    /\ UNCHANGED <<data, isSymlink, name, content, ctype, wrapped, req,
                   dataSent, body, metricObs, probe>>

\* lines 40-43: content := &lazySeeker{...}
NewContent ==
    /\ pc = "adapter"
    /\ content' = NewLazySeeker(size)
    /\ trace' = Append(trace, "newLazySeeker")
    /\ pc' = "ctype"
    /\ UNCHANGED <<data, isSymlink, name, size, err, ctype, header, wrapped, req,
                   status, dataSent, body, metricObs, probe>>

\* lines 48-51: a symlink is labelled, nothing of it is inspected
SymlinkBranch ==
    /\ ctype' = "inode/symlink"
    /\ trace' = Append(trace, "symlink")
    /\ pc' = "setHeader"

SniffAlways(t) == TRUE

\* line 54: the content is sniffed only when the registry knows nothing
NeedsSniff(t) == t = ""

\* lines 53-54: ctype = mime.TypeByExtension(gopath.Ext(name))
ExtensionBranch ==
    /\ ctype' = TypeByExtension(Ext(name))
    /\ trace' = Append(trace, "typeByExtension")
    /\ pc' = IF NeedsSniff(ctype') THEN "detect" ELSE "normalize"

SymlinkUnnoticed(symlink) == ExtensionBranch

\* line 48: if _, isSymlink := file.(*files.Symlink); isSymlink
ResolveStep(symlink) == IF symlink THEN SymlinkBranch ELSE ExtensionBranch

ResolveType ==
    /\ pc = "ctype"
    /\ ResolveStep(isSymlink)
    /\ UNCHANGED <<data, isSymlink, name, size, err, content, header, wrapped, req,
                   status, dataSent, body, metricObs, probe>>

DetectErrorIgnored(r) ==
    /\ ctype' = DetectType(r.bytes)
    /\ trace' = Append(trace, "detect")
    /\ pc' = "rewind"
    /\ UNCHANGED <<status, header>>

\* lines 57-63: mimetype.DetectReader(content); 500 and return on err
DetectStep(r) ==
    IF r.err # ""
    THEN /\ HttpError(500)
         /\ Return(Append(trace, "detect"))
         /\ UNCHANGED ctype
    ELSE /\ ctype' = DetectType(r.bytes)
         /\ trace' = Append(trace, "detect")
         /\ pc' = "rewind"
         /\ UNCHANGED <<status, header>>

\* the detector reads a bounded prefix through the stream
Detect ==
    /\ pc = "detect"
    /\ \E ok \in BOOLEAN :
          LET r == LazyRead(content, data, SniffLen, ok)
          IN  /\ content' = r.s
              /\ err' = r.err
              /\ DetectStep(r)
    /\ UNCHANGED <<data, isSymlink, name, size, wrapped, req,
                   dataSent, body, metricObs, probe>>

RewindSkipped(r) ==
    /\ content' = content
    /\ err' = ""
    /\ trace' = Append(trace, "rewind")
    /\ pc' = "normalize"
    /\ UNCHANGED <<status, header>>

\* lines 64-68: content.Seek(0, io.SeekStart); 500 and return on err
RewindStep(r) ==
    /\ content' = r.s
    /\ err' = r.err
    /\ IF r.err # ""
       THEN /\ HttpError(500)
            /\ Return(Append(trace, "rewind"))
       ELSE /\ trace' = Append(trace, "rewind")
            /\ pc' = "normalize"
            /\ UNCHANGED <<status, header>>

Rewind ==
    /\ pc = "rewind"
    /\ \E ok \in BOOLEAN : RewindStep(LazySeek(content, 0, "start", ok))
    /\ UNCHANGED <<data, isSymlink, name, size, ctype, wrapped, req,
                   dataSent, body, metricObs, probe>>

\* lines 74-76
Normalize ==
    /\ pc = "normalize"
    /\ ctype' = StripHTMLEncoding(ctype)
    /\ trace' = Append(trace, "normalize")
    /\ pc' = "setHeader"
    /\ UNCHANGED <<data, isSymlink, name, size, err, content, header, wrapped, req,
                   status, dataSent, body, metricObs, probe>>

HeaderNotSet ==
    /\ pc = "setHeader"
    /\ pc' = "wrap"
    /\ UNCHANGED <<data, isSymlink, trace, name, size, err, content, ctype, header,
                   wrapped, req, status, dataSent, body, metricObs, probe>>

\* line 80: w.Header().Set("Content-Type", ctype)
SetContentType ==
    /\ pc = "setHeader"
    /\ header' = ctype
    /\ trace' = Append(trace, "setContentType")
    /\ pc' = "wrap"
    /\ UNCHANGED <<data, isSymlink, name, size, err, content, ctype, wrapped, req,
                   status, dataSent, body, metricObs, probe>>

\* line 83: w = &statusResponseWriter{w}
WrapWriter ==
    /\ pc = "wrap"
    /\ wrapped' = TRUE
    /\ pc' = "serve"
    /\ UNCHANGED <<data, isSymlink, trace, name, size, err, content, ctype, header,
                   req, status, dataSent, body, metricObs, probe>>

\* line 87: _, dataSent, _ := ServeContent(w, r, name, modtime, content)
Serve ==
    /\ pc = "serve"
    /\ \E r \in Requests, ok \in BOOLEAN :
          LET out == ServeContent(content, data, r, ok)
          IN  /\ req' = r
              /\ status' = out.status
              /\ dataSent' = out.dataSent
              /\ body' = out.body
              /\ content' = out.s
    /\ trace' = Append(trace, "serveContent")
    /\ pc' = "metric"
    /\ UNCHANGED <<data, isSymlink, name, size, err, ctype, header, wrapped,
                   metricObs, probe>>

ObserveAlways(sent) == metricObs' = metricObs + 1

\* lines 90-93: if dataSent { ...Observe(...) }
MetricStep(sent) ==
    IF sent THEN metricObs' = metricObs + 1 ELSE UNCHANGED metricObs

\* the end of the function body: the metric, then the implicit return
UpdateMetric ==
    /\ pc = "metric"
    /\ MetricStep(dataSent)
    /\ Return(trace)
    /\ UNCHANGED <<data, isSymlink, name, size, err, content, ctype, header,
                   wrapped, req, status, dataSent, body, probe>>

Next ==
    \/ StartSpan
    \/ AddCacheControl
    \/ AddContentDisposition
    \/ FileSize
    \/ NewContent
    \/ ResolveType
    \/ Detect
    \/ Rewind
    \/ Normalize
    \/ SetContentType
    \/ WrapWriter
    \/ Serve
    \/ UpdateMetric

Spec == Init /\ [][Next]_vars

\* -------------------------------------------------- the adapter on its own
\* The stream as line 40 builds it, driven by any caller: reads and seeks in
\* any order, with any offset and origin, the source failing at will.
InitAdapter ==
    /\ data \in DistinctContents
    /\ isSymlink = FALSE
    /\ pc = "harness"
    /\ trace = <<>>
    /\ name = ""
    /\ size = Len(data)
    /\ err = ""
    /\ content = NewLazySeeker(Len(data))
    /\ ctype = ""
    /\ header = ""
    /\ wrapped = FALSE
    /\ req = NoRequest
    /\ status = 0
    /\ dataSent = FALSE
    /\ body = <<>>
    /\ metricObs = 0
    /\ probe = NoProbe

AdapterSeek ==
    /\ pc = "harness"
    /\ content.reads + content.seeks < MaxOps
    /\ \E off \in (0 - MaxLen)..MaxLen, whence \in Whence, ok \in BOOLEAN :
          LET r == LazySeek(content, off, whence, ok)
          IN  /\ content' = r.s
              /\ probe' = [op |-> "seek", err |-> r.err, from |-> content.offset,
                           target |-> SeekTarget(content, off, whence),
                           n |-> 0, bytes |-> <<>>]
    /\ UNCHANGED <<data, isSymlink, pc, trace, name, size, err, ctype, header,
                   wrapped, req, status, dataSent, body, metricObs>>

AdapterRead ==
    /\ pc = "harness"
    /\ content.reads + content.seeks < MaxOps
    /\ \E n \in 1..MaxLen, ok \in BOOLEAN :
          LET r == LazyRead(content, data, n, ok)
          IN  /\ content' = r.s
              /\ probe' = IF probe.op = "seek" /\ probe.err = ""
                          THEN [probe EXCEPT !.op = "seekread", !.err = r.err,
                                             !.n = n, !.bytes = r.bytes]
                          ELSE [op |-> "read", err |-> r.err, from |-> content.offset,
                                target |-> content.offset, n |-> n, bytes |-> r.bytes]
    /\ UNCHANGED <<data, isSymlink, pc, trace, name, size, err, ctype, header,
                   wrapped, req, status, dataSent, body, metricObs>>

NextAdapter == AdapterSeek \/ AdapterRead

SpecAdapter == InitAdapter /\ [][NextAdapter]_vars

\* ================================================================ claims
InTrace(e) == \E i \in 1..Len(trace) : trace[i] = e

Count(e) == Cardinality({i \in 1..Len(trace) : trace[i] = e})

\* C1: the latency metric is observed exactly once when ServeContent reports
\* dataSent, and not at all otherwise: never before the responder has run,
\* never on a 502 or 500 return, never on a 304, a 416 or a HEAD response;
\* no request is observed twice.
LatencyObservedIffDataSent ==
    /\ metricObs <= 1
    /\ pc # "done" => metricObs = 0
    /\ pc = "done" => metricObs = (IF dataSent THEN 1 ELSE 0)
    /\ status \in {500, 502, 304, 416} => metricObs = 0
    /\ req.method = "HEAD" => metricObs = 0
    /\ ~InTrace("serveContent") => ~dataSent

LatencyObservedOnce ==
    /\ pc = "done"
    /\ status = 206
    /\ dataSent
    /\ body # <<>>
    /\ metricObs = 1

\* C2: when file.Size() fails the request ends with 502 at once: no adapter,
\* no read or seek of the content, no Content-Type from a resolved type, no
\* call of the responder, no metric.
SizeFailureAborts ==
    err = "UnknownSize" =>
        /\ pc = "done"
        /\ status = 502
        /\ content = NoContent
        /\ ctype = ""
        /\ ~InTrace("newLazySeeker")
        /\ ~InTrace("setContentType")
        /\ ~InTrace("serveContent")
        /\ metricObs = 0
        /\ ~dataSent

SizeFailureSeen ==
    /\ err = "UnknownSize"
    /\ pc = "done"
    /\ status = 502
    /\ data # <<>>

\* C3: a read that follows a successful seek to P in [0, size] returns the
\* source's bytes from logical offset P on (as many as asked for, or as are
\* left), whatever reads and seeks came before and whether P lies ahead of
\* the old position or behind it.
SeekThenReadIsContiguous ==
    (probe.op = "seekread" /\ probe.err = "") =>
        /\ probe.target \in 0..Len(data)
        /\ probe.bytes = SubSeq(data, probe.target + 1,
                                Min(probe.target + probe.n, Len(data)))

BackwardSeekThenRead ==
    /\ probe.op = "seekread"
    /\ probe.err = ""
    /\ 0 < probe.target
    /\ probe.target < probe.from
    /\ probe.bytes # <<>>
    /\ content.opens > 0

\* what the detector is given when it runs on a fresh stream
SniffPrefix == SubSeq(data, 1, Min(SniffLen, Len(data)))

\* the type before normalization: the registry's, else the detector's
RawType ==
    IF TypeByExtension(Ext(name)) # "" THEN TypeByExtension(Ext(name))
    ELSE DetectType(SniffPrefix)

\* C4: when the type came from sniffing, the stream handed to ServeContent
\* stands at logical offset 0 and a full-body read through it gives the same
\* bytes as a full-body read of a stream nobody sniffed, for every content
\* length; a plain GET then sends exactly the file's bytes.
SniffedStreamIsRewound ==
    /\ (pc = "serve" /\ InTrace("detect")) =>
          /\ content.offset = 0
          /\ ReadAll(content, data) = ReadAll(NewLazySeeker(Len(data)), data)
          /\ ReadAll(content, data) = data
    /\ (InTrace("detect") /\ InTrace("serveContent") /\ status = 200
            /\ req.method = "GET") => body = data

SniffedThenServedInFull ==
    /\ pc = "metric"
    /\ InTrace("detect")
    /\ Len(data) > SniffLen
    /\ status = 200
    /\ req.method = "GET"
    /\ body = data
    /\ content.opens = 1

\* C5: a symlink gets the fixed type "inode/symlink" whatever its name and
\* bytes; no registry lookup is made and the stream is neither read nor
\* seeked before ServeContent is called.
SymlinkTypeIsFixed ==
    /\ (isSymlink /\ pc \in {"setHeader", "wrap", "serve"}) =>
          /\ ctype = "inode/symlink"
          /\ content.reads = 0
          /\ content.seeks = 0
          /\ content.offset = 0
    /\ (isSymlink /\ pc \in {"wrap", "serve", "metric"}) => header = "inode/symlink"
    /\ (isSymlink /\ pc = "done" /\ InTrace("serveContent")) => header = "inode/symlink"
    /\ isSymlink =>
          /\ ~InTrace("typeByExtension")
          /\ ~InTrace("detect")
          /\ ~InTrace("rewind")
          /\ ~InTrace("normalize")

SymlinkWithPngNameAndHtmlBytes ==
    /\ isSymlink
    /\ pc = "serve"
    /\ name = "cat.png"
    /\ DetectType(SniffPrefix) = "text/html; charset=utf-8"
    /\ header = "inode/symlink"

\* C6: for a file that is no symlink and whose extension the registry
\* knows, the resolved type is the registry's value (normalized) whatever
\* the bytes are, and the stream is not read or seeked while the type is
\* resolved; the detector runs only when the lookup gave "".
ExtensionWinsOverSniffing ==
    /\ (~isSymlink /\ pc \in {"setHeader", "wrap", "serve"}
            /\ TypeByExtension(Ext(name)) # "") =>
          /\ ctype = StripHTMLEncoding(TypeByExtension(Ext(name)))
          /\ content.reads = 0
          /\ content.seeks = 0
          /\ content.offset = 0
    /\ InTrace("detect") => (InTrace("typeByExtension") /\ TypeByExtension(Ext(name)) = "")
    /\ (~isSymlink /\ pc \in {"setHeader", "wrap", "serve"}
            /\ TypeByExtension(Ext(name)) = "") => InTrace("detect")

PngNameWithJpegBytes ==
    /\ ~isSymlink
    /\ pc = "serve"
    /\ name = "cat.png"
    /\ DetectType(SniffPrefix) = "image/jpeg"
    /\ header = "image/png"

\* C7: for a file that is no symlink, the Content-Type header set is exactly
\* "text/html" whenever the registry's or the detector's type begins with
\* "text/html;", and is that type unchanged otherwise.
HtmlTypeIsNormalized ==
    (~isSymlink /\ InTrace("setContentType")) =>
        /\ HasPrefix(RawType, "text/html;") => header = "text/html"
        /\ ~HasPrefix(RawType, "text/html;") => header = RawType

SniffedHtmlIsNormalized ==
    /\ ~isSymlink
    /\ pc = "serve"
    /\ name = "README"
    /\ RawType = "text/html; charset=utf-8"
    /\ header = "text/html"

\* C8: when the sniffing read fails, or the seek back to 0 after it fails,
\* the request ends with 500 at once and nothing is tried again: the stream
\* saw the one read (and, for the seek, the one seek) and no more, no
\* Content-Type was set from a resolved type, ServeContent was not called
\* and no metric was observed.
DetectionFailureAborts ==
    err \in {"ReadError", "SeekError", "InvalidOffset"} =>
        /\ pc = "done"
        /\ status = 500
        /\ content.reads = 1
        /\ content.seeks = (IF err = "ReadError" THEN 0 ELSE 1)
        /\ content.opens = 0
        /\ Count("detect") = 1
        /\ Count("rewind") = (IF err = "ReadError" THEN 0 ELSE 1)
        /\ ~InTrace("setContentType")
        /\ ~InTrace("serveContent")
        /\ metricObs = 0
        /\ ~dataSent

RewindFailureSeen ==
    /\ err = "SeekError"
    /\ pc = "done"
    /\ status = 500
    /\ InTrace("rewind")

\* C9: the span is opened once, before anything else serveFile does, and is
\* closed once, as the last thing, on every way out: the 502 return, both
\* 500 returns and the normal end, with or without a metric.
SpanOpenedAndClosedOnce ==
    /\ trace # <<>> => trace[1] = "span.start"
    /\ Count("span.start") = (IF pc = "start" THEN 0 ELSE 1)
    /\ Count("span.end") = (IF pc = "done" THEN 1 ELSE 0)
    /\ pc = "done" => trace[Len(trace)] = "span.end"
    /\ status # 0 /\ ~InTrace("serveContent") => pc = "done"

SpanClosedOnDetectFailure ==
    /\ pc = "done"
    /\ err = "ReadError"
    /\ status = 500
    /\ trace[Len(trace)] = "span.end"

IsResolveStep(e) == e \in {"symlink", "typeByExtension", "detect", "rewind", "normalize"}

IsOrderedStep(e) == ~IsResolveStep(e) /\ e \notin {"span.start", "span.end"}

Position(e) == CHOOSE i \in 1..Len(trace) : trace[i] = e

\* C10: whenever ServeContent is called, serveFile has gone through cache
\* control, content disposition, the size query, the adapter's construction,
\* the type resolution and the explicit Content-Type header, in that order;
\* the header holds the resolved, non-empty type by then; ServeContent is
\* called at most once.
StepsInFixedOrder ==
    /\ Count("serveContent") <= 1
    /\ pc = "serve" =>
          /\ SelectSeq(trace, IsOrderedStep)
                = <<"cacheControl", "contentDisposition", "size", "newLazySeeker",
                    "setContentType">>
          /\ header # ""
          /\ header = ctype
          /\ wrapped
          /\ content.made
          /\ \E i \in 1..Len(trace) : IsResolveStep(trace[i])
          /\ \A i \in 1..Len(trace) : IsResolveStep(trace[i]) =>
                (Position("newLazySeeker") < i /\ i < Position("setContentType"))
    /\ InTrace("serveContent") =>
          /\ SelectSeq(trace, IsOrderedStep)
                = <<"cacheControl", "contentDisposition", "size", "newLazySeeker",
                    "setContentType", "serveContent">>
          /\ header # ""

ResponderReachedAfterSniff ==
    /\ pc = "metric"
    /\ InTrace("serveContent")
    /\ InTrace("rewind")
    /\ header = "image/jpeg"

====
